---------------------------- MODULE Spec2Model ----------------------------
(***************************************************************************)
(* A model of the gulfsporeJIT plan engine: compute_plan (planner.py) and  *)
(* its reference tables (tables.py).                                       *)
(*                                                                         *)
(* Numbers.  The engine computes its bag and cycle counts in Python        *)
(* floats (IEEE-754 binary64, round to nearest, ties to even) and takes    *)
(* math.ceil of the result.  The model computes them the same way: a       *)
(* float is a sign, a 53-bit mantissa and a binary exponent, the mantissa  *)
(* held in limbs because TLC's integers are 32 bits wide.                  *)
(*                                                                         *)
(* Dates.  A datetime.date is its proleptic Gregorian ordinal.             *)
(* Durations are counted in half days (HalfDaysPerDay units to the day),   *)
(* the step of the dashboard's duration inputs; date - timedelta(days=d)   *)
(* moves the date by timedelta.days whole days only.                       *)
(***************************************************************************)
EXTENDS Integers, Sequences, FiniteSets, TLC

(***************************************************************************)
(* Natural numbers of any size: little-endian sequences of limbs in        *)
(* 0..Base-1 without leading zero limbs; <<>> is zero.                     *)
(***************************************************************************)
Base == 2^15

RECURSIVE BigTrim(_)
BigTrim(a) ==
    IF a = <<>> THEN <<>>
    ELSE IF a[Len(a)] = 0 THEN BigTrim(SubSeq(a, 1, Len(a) - 1))
    ELSE a

RECURSIVE BigFromInt(_)
BigFromInt(n) ==
    IF n = 0 THEN <<>> ELSE <<n % Base>> \o BigFromInt(n \div Base)

RECURSIVE BigToInt(_)
BigToInt(a) ==
    IF a = <<>> THEN 0 ELSE a[1] + Base * BigToInt(Tail(a))

BigLimb(a, i) == IF i <= Len(a) THEN a[i] ELSE 0

RECURSIVE BigCmpFrom(_, _, _)
BigCmpFrom(a, b, i) ==
    IF i = 0 THEN 0
    ELSE IF a[i] < b[i] THEN -1
    ELSE IF a[i] > b[i] THEN 1
    ELSE BigCmpFrom(a, b, i - 1)

\* -1, 0 or 1 as a < b, a = b or a > b.
BigCmp(a, b) ==
    IF Len(a) < Len(b) THEN -1
    ELSE IF Len(a) > Len(b) THEN 1
    ELSE BigCmpFrom(a, b, Len(a))

RECURSIVE BigAddFrom(_, _, _, _)
BigAddFrom(a, b, i, carry) ==
    IF i > Len(a) /\ i > Len(b)
    THEN (IF carry = 0 THEN <<>> ELSE <<carry>>)
    ELSE LET t == BigLimb(a, i) + BigLimb(b, i) + carry
         IN  <<t % Base>> \o BigAddFrom(a, b, i + 1, t \div Base)

BigAdd(a, b) == BigAddFrom(a, b, 1, 0)

RECURSIVE BigSubFrom(_, _, _, _)
BigSubFrom(a, b, i, borrow) ==
    IF i > Len(a) THEN <<>>
    ELSE LET t == a[i] - BigLimb(b, i) - borrow
         IN  <<t % Base>> \o BigSubFrom(a, b, i + 1, IF t < 0 THEN 1 ELSE 0)

\* a - b, for a >= b.
BigSub(a, b) == BigTrim(BigSubFrom(a, b, 1, 0))

RECURSIVE BigMulSmallFrom(_, _, _, _)
BigMulSmallFrom(a, k, i, carry) ==
    IF i > Len(a)
    THEN (IF carry = 0 THEN <<>> ELSE <<carry>>)
    ELSE LET t == a[i] * k + carry
         IN  <<t % Base>> \o BigMulSmallFrom(a, k, i + 1, t \div Base)

\* a * k, for a limb k in 0..Base-1.
BigMulSmall(a, k) == IF k = 0 THEN <<>> ELSE BigMulSmallFrom(a, k, 1, 0)

RECURSIVE BigMulFrom(_, _, _)
BigMulFrom(a, b, i) ==
    IF i > Len(b) THEN <<>>
    ELSE LET rest == BigMulFrom(a, b, i + 1)
             high == IF rest = <<>> THEN <<>> ELSE <<0>> \o rest
         IN  BigAdd(BigMulSmall(a, b[i]), high)

BigMul(a, b) == IF a = <<>> THEN <<>> ELSE BigMulFrom(a, b, 1)

BigDouble(a) == BigAdd(a, a)

RECURSIVE BigHalfFrom(_, _, _)
BigHalfFrom(a, i, carry) ==
    IF i = 0 THEN <<>>
    ELSE LET t == carry * Base + a[i]
         IN  BigHalfFrom(a, i - 1, t % 2) \o <<t \div 2>>

\* floor(a / 2)
BigHalf(a) == BigTrim(BigHalfFrom(a, Len(a), 0))

BigOdd(a) == a # <<>> /\ a[1] % 2 = 1

RECURSIVE IntBitLen(_)
IntBitLen(n) == IF n = 0 THEN 0 ELSE 1 + IntBitLen(n \div 2)

BigBitLen(a) ==
    IF a = <<>> THEN 0 ELSE 15 * (Len(a) - 1) + IntBitLen(a[Len(a)])


(***************************************************************************)
(* Python floats.  A float is [s, m, e] with value s * m * 2^e, s the sign *)
(* (1 or -1) and m a 53-bit mantissa (2^52 <= m < 2^53), or FZero.  The    *)
(* values the engine meets are far from the subnormal and the overflow     *)
(* range, so exponents are unbounded here.                                 *)
(***************************************************************************)
MantBits == 53

FZero == [s |-> 1, m |-> <<>>, e |-> 0]

RECURSIVE BigShlBits(_, _)
BigShlBits(a, k) == IF k = 0 THEN a ELSE BigDouble(BigShlBits(a, k - 1))

\* a * 2^k: whole limbs first, then bit by bit.
BigShl(a, k) ==
    IF a = <<>> THEN <<>>
    ELSE [i \in 1..(k \div 15) |-> 0] \o BigShlBits(a, k % 15)

RECURSIVE BigShrBits(_, _)
BigShrBits(a, k) == IF k = 0 THEN a ELSE BigHalf(BigShrBits(a, k - 1))

\* floor(a / 2^k)
BigShr(a, k) ==
    IF k \div 15 >= Len(a) THEN <<>>
    ELSE BigShrBits(SubSeq(a, k \div 15 + 1, Len(a)), k % 15)

\* The float of the exactly representable value s * m * 2^e (m of at most 53 bits).
FNormal(s, m, e) ==
    IF m = <<>> THEN FZero
    ELSE LET k == MantBits - BigBitLen(m)
         IN  [s |-> s, m |-> BigShl(m, k), e |-> e - k]

\* Round to nearest, ties to even: the float nearest to
\* s * (m + g/2 + t) * 2^e, where g is the guard bit and sticky tells whether
\* the rest t in [0, 1/2) is not zero.  With g or sticky set, m has at least 53 bits.
FRound(s, m, e, g, sticky) ==
    LET k    == BigBitLen(m) - MantBits
        low  == IF k > 0 THEN BigShr(m, k - 1) ELSE m
        hi   == IF k > 0 THEN BigHalf(low) ELSE m
        gd   == IF k > 0 THEN (IF BigOdd(low) THEN 1 ELSE 0) ELSE g
        st   == IF k > 0 THEN sticky \/ g = 1 \/ BigShl(low, k - 1) # m ELSE sticky
        ex   == IF k > 0 THEN e + k ELSE e
        up   == BigAdd(hi, <<1>>)
    IN  IF gd = 1 /\ (st \/ BigOdd(hi))
        THEN (IF BigBitLen(up) > MantBits
              THEN FNormal(s, BigHalf(up), ex + 1)
              ELSE FNormal(s, up, ex))
        ELSE FNormal(s, hi, ex)

\* float(n) for an int n (exact below 2^53).
FromInt(n) ==
    IF n = 0 THEN FZero
    ELSE IF n < 0 THEN FNormal(-1, BigFromInt(-n), 0)
    ELSE FNormal(1, BigFromInt(n), 0)

\* x * y: the exact product, rounded.
FMul(x, y) ==
    IF x.m = <<>> \/ y.m = <<>> THEN FZero
    ELSE FRound(x.s * y.s, BigMul(x.m, y.m), x.e + y.e, 0, FALSE)

RECURSIVE FDivBits(_, _, _)
\* Long division, n more bits: from st = <<q, rem>> with rem < d to
\* <<q * 2^n + floor(rem * 2^n / d), the remainder>>.
FDivBits(st, d, n) ==
    IF n = 0 THEN st
    ELSE LET r2 == BigDouble(st[2])
             q2 == BigDouble(st[1])
         IN  IF BigCmp(r2, d) >= 0
             THEN FDivBits(<<BigAdd(q2, <<1>>), BigSub(r2, d)>>, d, n - 1)
             ELSE FDivBits(<<q2, r2>>, d, n - 1)

\* x / y for y # 0: the exact quotient, rounded.
FDiv(x, y) ==
    IF x.m = <<>> THEN FZero
    ELSE LET ge  == BigCmp(x.m, y.m) >= 0
             n   == IF ge THEN MantBits - 1 ELSE MantBits
             qr  == IF ge THEN FDivBits(<<<<1>>, BigSub(x.m, y.m)>>, y.m, n)
                          ELSE FDivBits(<<<<>>, x.m>>, y.m, n)
             r2  == BigDouble(qr[2])
             c   == BigCmp(r2, y.m)
         IN  FRound(x.s * y.s, qr[1], x.e - y.e - n,
                    IF c >= 0 THEN 1 ELSE 0,
                    IF c >= 0 THEN c > 0 ELSE qr[2] # <<>>)

\* math.ceil(x), an int; for |x| < 2^31.
Ceil(x) ==
    IF x.m = <<>> THEN 0
    ELSE IF x.e >= 0 THEN x.s * BigToInt(BigShl(x.m, x.e))
    ELSE LET fl   == BigShr(x.m, -x.e)
             lost == BigShl(fl, -x.e) # x.m
             mag  == BigToInt(fl)
         IN  IF x.s = 1 THEN (IF lost THEN mag + 1 ELSE mag) ELSE -mag

\* The float a decimal literal num/den denotes (1.02 is Literal(102, 100)):
\* the nearest float to the written value.
Literal(num, den) == FDiv(FromInt(num), FromInt(den))


(***************************************************************************)
(* tables.py: the reference data.  A ratio written 0.20 in the source is   *)
(* held as its hundredths, 20; HundredthsFloat gives the float the literal *)
(* denotes.                                                                *)
(***************************************************************************)
MUSHROOMS ==
    [name \in {"Lion's Mane", "Turkey Tail", "Reishi", "Blue Oyster",
               "Pink Oyster", "King Oyster", "Yellow Oyster", "Pearl Oyster",
               "Shiitake", "Pioppino"} |->
        CASE name = "Lion's Mane" ->
                 [incubation_days |-> 14, cultural_inoculation_days |-> 21,
                  fruiting_days |-> 21, expected_yield_ratio |-> 20,
                  default_grain_size_lbs |-> 3]
          [] name = "Turkey Tail" ->
                 [incubation_days |-> 21, cultural_inoculation_days |-> 18,
                  fruiting_days |-> 30, expected_yield_ratio |-> 15,
                  default_grain_size_lbs |-> 6]
          [] name = "Reishi" ->
                 [incubation_days |-> 45, cultural_inoculation_days |-> 24,
                  fruiting_days |-> 75, expected_yield_ratio |-> 16,
                  default_grain_size_lbs |-> 6]
          [] name = "Blue Oyster" ->
                 [incubation_days |-> 14, cultural_inoculation_days |-> 21,
                  fruiting_days |-> 7, expected_yield_ratio |-> 28,
                  default_grain_size_lbs |-> 3]
          [] name = "Pink Oyster" ->
                 [incubation_days |-> 14, cultural_inoculation_days |-> 12,
                  fruiting_days |-> 8, expected_yield_ratio |-> 24,
                  default_grain_size_lbs |-> 3]
          [] name = "King Oyster" ->
                 [incubation_days |-> 21, cultural_inoculation_days |-> 18,
                  fruiting_days |-> 12, expected_yield_ratio |-> 22,
                  default_grain_size_lbs |-> 3]
          [] name = "Yellow Oyster" ->
                 [incubation_days |-> 14, cultural_inoculation_days |-> 12,
                  fruiting_days |-> 8, expected_yield_ratio |-> 11,
                  default_grain_size_lbs |-> 3]
          [] name = "Pearl Oyster" ->
                 [incubation_days |-> 21, cultural_inoculation_days |-> 14,
                  fruiting_days |-> 6, expected_yield_ratio |-> 28,
                  default_grain_size_lbs |-> 3]
          [] name = "Shiitake" ->
                 [incubation_days |-> 56, cultural_inoculation_days |-> 70,
                  fruiting_days |-> 75, expected_yield_ratio |-> 28,
                  default_grain_size_lbs |-> 6]
          [] name = "Pioppino" ->
                 [incubation_days |-> 21, cultural_inoculation_days |-> 30,
                  fruiting_days |-> 10, expected_yield_ratio |-> 32,
                  default_grain_size_lbs |-> 3]]

MUSHROOM_LIST == DOMAIN MUSHROOMS

FRUITING_BAG_SIZES_LBS == {5, 10}

SUBSTRATE_TYPES == <<"Masters Mix", "Chopped Straw", "Saw Dust">>

STERILIZER_CAPACITY_PER_CYCLE == (5 :> 40) @@ (10 :> 20)

SUBSTRATE_MIX_RATIOS ==
    [hw_pellets_per_lb |-> 20, sh_pellets_per_lb |-> 20, water_per_lb |-> 60]

\* 1.02, in hundredths.
LOSS_FACTOR == 102

(***************************************************************************)
(* Dates and durations.                                                    *)
(***************************************************************************)
HalfDaysPerDay == 2

\* 0.5 day
HalfDay == 1

\* A whole number of days, as a duration.
Days(n) == n * HalfDaysPerDay

\* timedelta(days=d).days for a duration d: the whole days, rounded down.
TimedeltaDays(h) == h \div HalfDaysPerDay

\* date - timedelta(days=d): a date moves by whole days only.
DateMinus(date, h) == date - TimedeltaDays(h)

IsLeap(year) == year % 4 = 0 /\ (year % 100 # 0 \/ year % 400 = 0)

DaysBeforeMonth(year, month) ==
    LET cum == <<0, 31, 59, 90, 120, 151, 181, 212, 243, 273, 304, 334>>
    IN  cum[month] + (IF month > 2 /\ IsLeap(year) THEN 1 ELSE 0)

\* date(year, month, day).toordinal()
DateOrdinal(year, month, day) ==
    LET py == year - 1
    IN  py * 365 + py \div 4 - py \div 100 + py \div 400
        + DaysBeforeMonth(year, month) + day


(***************************************************************************)
(* Bounds of the model: the requests the engine is called with.            *)
(***************************************************************************)
\* Durations the dashboard's inputs give: 0, 0.5, 1.0, ... up to the bound.
MaxSubBagsHalfDays == 4
MaxSubSterHalfDays == 6
MaxGbsHalfDays == 2
MaxSterilizers == 2
\* The dashboards' number of plans goes up to 5; the model's up to MaxPlans.
MaxPlans == 2
\* A typed species name has up to MaxPad leading spaces.
MaxPad == 1

\* Desired yields (lbs); the dashboards' yield input accepts any int >= 0.
Yields == {0, 55, 60, 100}

\* Bag sizes a caller may pass: the two of the table and one that is not in it.
BagSizeInputs == FRUITING_BAG_SIZES_LBS \cup {7}

HarvestDates == {DateOrdinal(2025, 6, 30)}

\* Loss factors (hundredths) the reference data may be given.
LossFactors == {100, LOSS_FACTOR, 110}

NoValue == "None"

\* gsi_bag_size_lbs=None, among bag sizes
NoBagSize == 0

(***************************************************************************)
(* planner.py: the quantities of compute_plan.                             *)
(***************************************************************************)
TableHundredths ==
    {MUSHROOMS[name].expected_yield_ratio : name \in MUSHROOM_LIST}
        \cup LossFactors
        \cup {SUBSTRATE_MIX_RATIOS.hw_pellets_per_lb,
              SUBSTRATE_MIX_RATIOS.sh_pellets_per_lb,
              SUBSTRATE_MIX_RATIOS.water_per_lb}

\* The float of each decimal literal of the tables.
LiteralFloats == [h \in TableHundredths |-> Literal(h, 100)] @@ <<>>

\* math.ceil((desired_yield_lbs * LOSS_FACTOR) / (exp_ratio * fruiting_bag_size_lbs))
FruitNumBags(yield, ratio, bag, loss) ==
    Ceil(FDiv(FMul(FromInt(yield), LiteralFloats[loss]),
              FMul(LiteralFloats[ratio], FromInt(bag))))

\* Faulty variant of Inflate: rounds to the nearest integer instead of up.
InflateRounded(n, loss) == (n * loss + 50) \div 100

\* Faulty variant of Inflate: divides by the loss factor instead of multiplying.
InflateDividing(n, loss) == Ceil(FDiv(FromInt(n), LiteralFloats[loss]))

\* math.ceil(n * LOSS_FACTOR)
Inflate(n, loss) == Ceil(FMul(FromInt(n), LiteralFloats[loss]))

\* Faulty variant of Cycles: floor division instead of a ceiling.
CyclesFloor(bags, capacity, sterilizers) == bags \div (capacity * sterilizers)

\* math.ceil(sub_ster_bags / (capacity * num_sterilizers))
Cycles(bags, capacity, sterilizers) ==
    Ceil(FDiv(FromInt(bags), FromInt(capacity * sterilizers)))

\* SUBSTRATE_MIX_RATIOS[...] * fruiting_bag_size_lbs
PerBag(perlb, bag) == FMul(LiteralFloats[perlb], FromInt(bag))

\* hw_per_bag * sub_ster_bags, and the like
MaterialTotal(perbag, bags) == FMul(perbag, FromInt(bags))

\* The numbers of one call: bag counts, cycles, per-bag amounts and totals.
Quantities(yield, ratio, bag, sterilizers, loss) ==
    LET fruit    == FruitNumBags(yield, ratio, bag, loss)
        inc      == Inflate(fruit, loss)
        ster     == Inflate(inc, loss)
        capacity == STERILIZER_CAPACITY_PER_CYCLE[bag]
        hw       == PerBag(SUBSTRATE_MIX_RATIOS.hw_pellets_per_lb, bag)
        sh       == PerBag(SUBSTRATE_MIX_RATIOS.sh_pellets_per_lb, bag)
        water    == PerBag(SUBSTRATE_MIX_RATIOS.water_per_lb, bag)
    IN  [fruit_num_bags |-> fruit,
         sub_inc_bags   |-> inc,
         sub_ster_bags  |-> ster,
         capacity       |-> capacity,
         cycles         |-> Cycles(ster, capacity, sterilizers),
         hw_per_bag     |-> hw,
         sh_per_bag     |-> sh,
         water_per_bag  |-> water,
         hw_total       |-> MaterialTotal(hw, ster),
         sh_total       |-> MaterialTotal(sh, ster),
         water_total    |-> MaterialTotal(water, ster)]

QuantityKeys ==
    Yields \X {MUSHROOMS[name].expected_yield_ratio : name \in MUSHROOM_LIST}
           \X (DOMAIN STERILIZER_CAPACITY_PER_CYCLE)
           \X (1..MaxSterilizers) \X LossFactors

\* Quantities, tabulated for the inputs of the model.  (f @@ <<>> is f, as an
\* enumerated function: TLC then evaluates the table once, not at every use.)
QuantityTable ==
    [key \in QuantityKeys |->
        Quantities(key[1], key[2], key[3], key[4], key[5])] @@ <<>>

(***************************************************************************)
(* planner.py: compute_plan.  req holds the call's arguments under the     *)
(* parameters' names; loss is the value of tables.LOSS_FACTOR.             *)
(***************************************************************************)
Min(S) == CHOOSE v \in S : \A w \in S : v <= w

\* Faulty variant of Outcome: the capacity lookup comes before every division.
OutcomeLookupFirst(req) ==
    IF req.fruiting_bag_size_lbs \notin DOMAIN STERILIZER_CAPACITY_PER_CYCLE
    THEN "KeyError"
    ELSE IF req.mushroom_row.expected_yield_ratio = 0
            \/ STERILIZER_CAPACITY_PER_CYCLE[req.fruiting_bag_size_lbs]
                   * req.num_sterilizers = 0
    THEN "ZeroDivisionError"
    ELSE "return"

\* What the call ends in: the plan is returned unless a lookup or a division fails.
Outcome(req) ==
    IF req.mushroom_row.expected_yield_ratio = 0 \/ req.fruiting_bag_size_lbs = 0
    THEN "ZeroDivisionError"
    ELSE IF req.fruiting_bag_size_lbs \notin DOMAIN STERILIZER_CAPACITY_PER_CYCLE
    THEN "KeyError"
    ELSE IF STERILIZER_CAPACITY_PER_CYCLE[req.fruiting_bag_size_lbs]
                * req.num_sterilizers = 0
    THEN "ZeroDivisionError"
    ELSE "return"

\* 1. Fruiting (anchor step)
fruiting(req, counts) ==
    LET fruit_days  == Days(req.mushroom_row.fruiting_days)
        fruit_end   == req.desired_harvest_date
        fruit_start == DateMinus(fruit_end, fruit_days)
    IN  [name |-> "Fruiting", date_start |-> fruit_start, date_end |-> fruit_end,
         duration_days |-> fruit_days, bag_size |-> req.fruiting_bag_size_lbs,
         num_bags |-> counts.fruit_num_bags,
         expected_yield_ratio |-> req.mushroom_row.expected_yield_ratio]

\* 2. Substrate Bag Incubation
substrate_incub(req, counts, fruit_start) ==
    LET sub_incub_days == Days(req.mushroom_row.incubation_days)
        sub_inc_end    == fruit_start
        sub_inc_start  == DateMinus(sub_inc_end, sub_incub_days)
    IN  [name |-> "Substrate Bags Incubation", date_start |-> sub_inc_start,
         date_end |-> sub_inc_end, duration_days |-> sub_incub_days,
         bag_size |-> req.fruiting_bag_size_lbs, num_bags |-> counts.sub_inc_bags,
         substrate_type |-> req.substrate_type]

\* Faulty variant of gsi_duration: ignores spawn_purchased.
gsi_duration_cultural(req) == Days(req.mushroom_row.cultural_inoculation_days + 1)

\* If spawn is purchased, assume incubation duration = 1 day (ready-to-use);
\* otherwise cultural inoculation days + 1.
gsi_duration(req) ==
    IF req.spawn_purchased THEN Days(1)
    ELSE Days(req.mushroom_row.cultural_inoculation_days + 1)

\* 3. Grain Spawn Incubation
gsi(req, sub_inc_start) ==
    LET gsi_bag_size_lbs ==
            IF req.gsi_bag_size_lbs = NoBagSize
            THEN req.mushroom_row.default_grain_size_lbs
            ELSE req.gsi_bag_size_lbs
        gsi_end   == sub_inc_start
        gsi_start == DateMinus(gsi_end, gsi_duration(req))
    IN  [name |-> "Grain Spawn Incubation", date_start |-> gsi_start,
         date_end |-> gsi_end, duration_days |-> gsi_duration(req),
         bag_size |-> gsi_bag_size_lbs, spawn_purchased |-> req.spawn_purchased]

\* 4. Substrate Bag Sterilization
substrate_ster(req, counts, gsi_start) ==
    LET sub_ster_end   == gsi_start
        sub_ster_start == DateMinus(sub_ster_end, req.sub_ster_duration_days)
    IN  [name |-> "Substrate Bags Sterilization", date_start |-> sub_ster_start,
         date_end |-> sub_ster_end, duration_days |-> req.sub_ster_duration_days,
         num_bags |-> counts.sub_ster_bags, bag_size |-> req.fruiting_bag_size_lbs,
         num_sterilizers |-> req.num_sterilizers,
         capacity_per_cycle |-> counts.capacity, cycles |-> counts.cycles]

\* 5. Substrate Bag Mixing
substrate_bags(req, counts, sub_ster_start) ==
    LET sub_bags_end   == sub_ster_start
        sub_bags_start == DateMinus(sub_bags_end, req.sub_bags_duration_days)
    IN  [name |-> "Substrate Bags (Mixing)", date_start |-> sub_bags_start,
         date_end |-> sub_bags_end, duration_days |-> req.sub_bags_duration_days,
         num_bags |-> counts.sub_ster_bags, hw_per_bag |-> counts.hw_per_bag,
         sh_per_bag |-> counts.sh_per_bag, water_per_bag |-> counts.water_per_bag]

\* Faulty variant of grain_bag_ster: placed before substrate mixing instead of
\* in parallel with it.
grain_bag_ster_serial(req, sub_ster_start) ==
    LET gbs_end   == DateMinus(sub_ster_start, req.sub_bags_duration_days)
        gbs_start == DateMinus(gbs_end, req.gbs_duration_days)
    IN  [name |-> "Grain Bags Sterilization", date_start |-> gbs_start,
         date_end |-> gbs_end, duration_days |-> req.gbs_duration_days]

\* 6. Grain Bag Sterilization: parallel with substrate mixing
grain_bag_ster(req, sub_ster_start) ==
    LET gbs_end   == sub_ster_start
        gbs_start == DateMinus(gbs_end, req.gbs_duration_days)
    IN  [name |-> "Grain Bags Sterilization", date_start |-> gbs_start,
         date_end |-> gbs_end, duration_days |-> req.gbs_duration_days]

\* Faulty variant of grain_bags: the start is the end minus the half day.
grain_bags_half_day(gbs_start) ==
    LET gb_end   == gbs_start
        gb_start == DateMinus(gb_end, HalfDay)
    IN  [name |-> "Grain Bags (Mixing)", date_start |-> gb_start,
         date_end |-> gb_end, duration_days |-> HalfDay]

\* 7. Grain Bag Mixing: half a day, shown on the previous calendar day
grain_bags(gbs_start) ==
    LET gb_end   == gbs_start
        gb_start == DateMinus(gb_end, Days(1))
    IN  [name |-> "Grain Bags (Mixing)", date_start |-> gb_start,
         date_end |-> gb_end, duration_days |-> HalfDay]

\* Faulty variant of earliest_start: takes the first block of the list.
first_block_start(blocks) == blocks[1].date_start

\* min(b["date_start"] for b in blocks)
earliest_start(blocks) == Min({blocks[j].date_start : j \in DOMAIN blocks})

\* Faulty variant of logical_earliest: no reconciliation.
display_earliest(blocks, earliest) == earliest

\* For total duration calculation, use the logical start (not display start).
logical_earliest(blocks, earliest) ==
    LET gb == blocks[CHOOSE j \in DOMAIN blocks : blocks[j].name = "Grain Bags (Mixing)"]
    IN  IF earliest = gb.date_start /\ gb.duration_days = HalfDay
        THEN earliest + 1
        ELSE earliest

\* SUMMARY
summary(blocks, fruit_num_bags, fruit_end) ==
    LET earliest   == earliest_start(blocks)
        total_days == fruit_end - logical_earliest(blocks, earliest)
        weeks      == total_days \div 7
        days       == total_days % 7
    IN  [fruiting_bags   |-> fruit_num_bags,
         schedule_starts |-> earliest,
         schedule_ends   |-> fruit_end,
         total_duration  |-> <<weeks, "weeks", days, "days">>]

\* MIX RATIOS (per bag)
mix_ratio(counts) ==
    <<[Component |-> "HW pellets (lbs per bag)", Amount |-> counts.hw_per_bag],
      [Component |-> "SH pellets (lbs per bag)", Amount |-> counts.sh_per_bag],
      [Component |-> "Water (lbs per bag)", Amount |-> counts.water_per_bag]>>

\* Faulty variant of materials: the totals are taken over the fruiting bags.
materials_fruiting(req, counts) ==
    <<[Material |-> "HW pellets total (lbs)",
       Total |-> MaterialTotal(counts.hw_per_bag, counts.fruit_num_bags)],
      [Material |-> "SH pellets total (lbs)",
       Total |-> MaterialTotal(counts.sh_per_bag, counts.fruit_num_bags)],
      [Material |-> "Water total (lbs)",
       Total |-> MaterialTotal(counts.water_per_bag, counts.fruit_num_bags)],
      [Material |-> "Bags planned", Total |-> counts.fruit_num_bags],
      [Material |-> "Bag size (lbs)", Total |-> req.fruiting_bag_size_lbs]>>

\* MATERIAL TOTALS (for sterilization batch)
materials(req, counts) ==
    <<[Material |-> "HW pellets total (lbs)", Total |-> counts.hw_total],
      [Material |-> "SH pellets total (lbs)", Total |-> counts.sh_total],
      [Material |-> "Water total (lbs)", Total |-> counts.water_total],
      [Material |-> "Bags planned", Total |-> counts.sub_ster_bags],
      [Material |-> "Bag size (lbs)", Total |-> req.fruiting_bag_size_lbs]>>

\* Faulty variant of Plan: the blocks are listed in the order the steps
\* compute them, from Fruiting backwards.
PlanComputedOrder(req, counts) ==
    LET fr  == fruiting(req, counts)
        si  == substrate_incub(req, counts, fr.date_start)
        gs  == gsi(req, si.date_start)
        ss  == substrate_ster(req, counts, gs.date_start)
        sb  == substrate_bags(req, counts, ss.date_start)
        gbs == grain_bag_ster(req, ss.date_start)
        gb  == grain_bags(gbs.date_start)
        blocks == <<fr, si, gs, ss, sb, gbs, gb>>
    IN  [blocks    |-> blocks,
         mix_ratio |-> mix_ratio(counts),
         materials |-> materials(req, counts),
         summary   |-> summary(blocks, fr.num_bags, fr.date_end)]

\* The body of compute_plan, given the numbers it computes on its way (counts).
Plan(req, counts) ==
    LET fr  == fruiting(req, counts)
        si  == substrate_incub(req, counts, fr.date_start)
        gs  == gsi(req, si.date_start)
        ss  == substrate_ster(req, counts, gs.date_start)
        sb  == substrate_bags(req, counts, ss.date_start)
        gbs == grain_bag_ster(req, ss.date_start)
        gb  == grain_bags(gbs.date_start)
        blocks == <<gb, gbs, sb, ss, gs, si, fr>>
    IN  [blocks    |-> blocks,
         mix_ratio |-> mix_ratio(counts),
         materials |-> materials(req, counts),
         summary   |-> summary(blocks, fr.num_bags, fr.date_end)]

compute_plan(req, loss) ==
    Plan(req, QuantityTable[<<req.desired_yield_lbs,
                              req.mushroom_row.expected_yield_ratio,
                              req.fruiting_bag_size_lbs, req.num_sterilizers, loss>>])


(***************************************************************************)
(* The engine's calls.  A caller passes a request; the call returns a plan *)
(* or raises.                                                              *)
(***************************************************************************)
VARIABLES
    request,      \* the arguments of the call
    loss_factor,  \* tables.LOSS_FACTOR, in hundredths
    pc,           \* "ready" before the call, "returned" or "raised" after it
                  \* ("skipped" when a dashboard does not call)
    plan,         \* what compute_plan returned, NoValue before
    error,        \* the exception raised, NoValue if none
    history,      \* the earlier calls that returned: pairs <<request, plan>>
    app,          \* the dashboard script that runs, NoValue for a bare call
    num_plans,    \* the dashboard's number of plans
    plan_index,   \* the plan the dashboard's loop is at, from 1
    master_rows,  \* the multi-plan dashboard's master schedule rows
    session_state,\* st.session_state: custom_mushrooms, show_new_species_form
    event         \* the last form or button event the dashboard handled

\* The dashboard's part of the state.
dashboard == <<app, num_plans, plan_index, master_rows, session_state, event>>

vars == <<request, loss_factor, pc, plan, error, history, dashboard>>

\* No dashboard: the engine is called by itself.
NoDashboard ==
    /\ app = NoValue
    /\ num_plans = 0
    /\ plan_index = 0
    /\ master_rows = <<>>
    /\ session_state = [custom_mushrooms |-> <<>>, show_new_species_form |-> FALSE]
    /\ event = [kind |-> "none"]

Requests ==
    [desired_yield_lbs      : Yields,
     desired_harvest_date   : HarvestDates,
     fruiting_bag_size_lbs  : BagSizeInputs,
     mushroom_row           : {MUSHROOMS[name] : name \in MUSHROOM_LIST},
     substrate_type         : {SUBSTRATE_TYPES[1]},
     spawn_purchased        : BOOLEAN,
     sub_bags_duration_days : 0..MaxSubBagsHalfDays,
     sub_ster_duration_days : 0..MaxSubSterHalfDays,
     num_sterilizers        : 0..MaxSterilizers,
     gsi_bag_size_lbs       : {NoBagSize, 6},
     gbs_duration_days      : 0..MaxGbsHalfDays]

Init ==
    /\ request \in Requests
    /\ loss_factor = LOSS_FACTOR
    /\ pc = "ready"
    /\ plan = NoValue
    /\ error = NoValue
    /\ history = {}
    /\ NoDashboard

\* Faulty variant of Return: the call leaves a larger loss factor behind.
ReturnRaisingLoss ==
    /\ pc = "ready"
    /\ Outcome(request) = "return"
    /\ plan' = compute_plan(request, loss_factor)
    /\ pc' = "returned"
    /\ loss_factor' = CHOOSE l \in LossFactors : \A m \in LossFactors : m <= l
    /\ UNCHANGED <<request, error, history, dashboard>>

\* compute_plan runs to its return statement.
Return ==
    /\ pc = "ready"
    /\ Outcome(request) = "return"
    /\ plan' = compute_plan(request, loss_factor)
    /\ pc' = "returned"
    /\ UNCHANGED <<request, loss_factor, error, history, dashboard>>

\* STERILIZER_CAPACITY_PER_CYCLE[fruiting_bag_size_lbs] finds no such key.
RaiseKeyError ==
    /\ pc = "ready"
    /\ Outcome(request) = "KeyError"
    /\ error' = "KeyError"
    /\ pc' = "raised"
    /\ UNCHANGED <<request, loss_factor, plan, history, dashboard>>

\* A division by zero.
RaiseZeroDivisionError ==
    /\ pc = "ready"
    /\ Outcome(request) = "ZeroDivisionError"
    /\ error' = "ZeroDivisionError"
    /\ pc' = "raised"
    /\ UNCHANGED <<request, loss_factor, plan, history, dashboard>>

Next == Return \/ RaiseKeyError \/ RaiseZeroDivisionError

Spec == Init /\ [][Next]_vars

(***************************************************************************)
(* The same calls with the reference data's loss factor varied: the        *)
(* requests are those of the signature's default durations.                *)
(***************************************************************************)
LossRequests ==
    {r \in Requests :
        /\ r.sub_bags_duration_days = Days(1)
        /\ r.sub_ster_duration_days = Days(3)
        /\ r.gbs_duration_days = Days(1)
        /\ r.gsi_bag_size_lbs = NoBagSize}

InitLoss ==
    /\ request \in LossRequests
    /\ loss_factor \in LossFactors
    /\ pc = "ready"
    /\ plan = NoValue
    /\ error = NoValue
    /\ history = {}
    /\ NoDashboard

SpecLoss == InitLoss /\ [][Next]_vars

(***************************************************************************)
(* A caller that calls the engine again and again, as the dashboards' plan *)
(* loop does, with any request of a few at each call.                      *)
(***************************************************************************)
CallRequests ==
    {r \in LossRequests :
        /\ r.desired_yield_lbs = 100
        /\ r.mushroom_row \in {MUSHROOMS["Lion's Mane"], MUSHROOMS["Pink Oyster"]}
        /\ r.spawn_purchased
        /\ r.num_sterilizers \in {0, MaxSterilizers}}

InitCalls ==
    /\ request \in CallRequests
    /\ loss_factor = LOSS_FACTOR
    /\ pc = "ready"
    /\ plan = NoValue
    /\ error = NoValue
    /\ history = {}
    /\ NoDashboard

\* The caller takes the result and calls again.
NewCall ==
    /\ pc \in {"returned", "raised"}
    /\ history' = IF pc = "returned" THEN history \cup {<<request, plan>>} ELSE history
    /\ request' \in CallRequests
    /\ pc' = "ready"
    /\ plan' = NoValue
    /\ error' = NoValue
    /\ UNCHANGED <<loss_factor, dashboard>>

NextCalls == Return \/ RaiseKeyError \/ RaiseZeroDivisionError \/ NewCall

SpecCalls == InitCalls /\ [][NextCalls]_vars

(***************************************************************************)
(* Calls with any bag size: the two of the capacity table and sizes it has *)
(* no entry for.                                                           *)
(***************************************************************************)
OtherBagSizes == {0, 3, 7}

BagRequests ==
    {[r EXCEPT !.fruiting_bag_size_lbs = b] :
        r \in {q \in Requests :
                  /\ q.desired_yield_lbs \in {0, 100}
                  /\ q.mushroom_row \in {MUSHROOMS["Lion's Mane"],
                                         MUSHROOMS["Pink Oyster"]}},
        b \in FRUITING_BAG_SIZES_LBS \cup OtherBagSizes}

InitBags ==
    /\ request \in BagRequests
    /\ loss_factor = LOSS_FACTOR
    /\ pc = "ready"
    /\ plan = NoValue
    /\ error = NoValue
    /\ history = {}
    /\ NoDashboard

SpecBags == InitBags /\ [][Next]_vars

(***************************************************************************)
(* The dashboards.  A script runs from top to bottom: the multi-plan       *)
(* scripts loop over the plans, the single-plan script has one plan.  Each *)
(* plan's widgets give the request; the widgets let the yield be 0, keep   *)
(* the bag size to FRUITING_BAG_SIZES_LBS and the sterilizers to 1 or more.*)
(***************************************************************************)
FinalJItToolApp == "FinalJItTool/app.py"

KristineNewApp == "kristineNEWapp.py"

AppCodeApp == "App_Code/app.py"

Apps == {FinalJItToolApp, KristineNewApp, AppCodeApp}

\* The scripts whose plan loop has "if desired_yield > 0:".
YieldGated == {FinalJItToolApp, KristineNewApp}

\* The plans a script can have: num_plans is a number input of the multi-plan
\* scripts, and the single-plan script has no loop.
NumPlans(script) == IF script = AppCodeApp THEN {1} ELSE 1..MaxPlans

\* What a plan's widgets can hold (the other widgets at their defaults).
AppRequests ==
    [desired_yield_lbs      : {0, 100},
     desired_harvest_date   : HarvestDates,
     fruiting_bag_size_lbs  : FRUITING_BAG_SIZES_LBS,
     mushroom_row           : {MUSHROOMS["Lion's Mane"]},
     substrate_type         : {SUBSTRATE_TYPES[1]},
     spawn_purchased        : {TRUE},
     sub_bags_duration_days : {Days(1)},
     sub_ster_duration_days : {Days(3)},
     num_sterilizers        : 1..MaxSterilizers,
     gsi_bag_size_lbs       : {3},
     gbs_duration_days      : {Days(1)}]

\* The rows a computed plan feeds into the master schedule, one per block.
MasterRows(i, req, p) ==
    [j \in DOMAIN p.blocks |->
        [Plan              |-> i,
         Mushroom          |-> CHOOSE name \in MUSHROOM_LIST :
                                   MUSHROOMS[name] = req.mushroom_row,
         Task              |-> p.blocks[j].name,
         Start             |-> p.blocks[j].date_start,
         End               |-> p.blocks[j].date_end,
         Duration_days     |-> p.blocks[j].duration_days,
         Desired_Yield_lbs |-> req.desired_yield_lbs]]

InitApps ==
    /\ app \in Apps
    /\ num_plans \in NumPlans(app)
    /\ plan_index = 1
    /\ request \in AppRequests
    /\ loss_factor = LOSS_FACTOR
    /\ pc = "ready"
    /\ plan = NoValue
    /\ error = NoValue
    /\ history = {}
    /\ master_rows = <<>>
    /\ session_state = [custom_mushrooms |-> <<>>, show_new_species_form |-> FALSE]
    /\ event = [kind |-> "none"]

\* The plan is computed and shown: in the gated scripts if the yield is > 0,
\* in the single-plan script always.  The multi-plan dashboard of
\* FinalJItTool then appends the plan's blocks to master_rows.
AppComputePlan ==
    /\ pc = "ready"
    /\ app \in Apps
    /\ app \in YieldGated => request.desired_yield_lbs > 0
    /\ Outcome(request) = "return"
    /\ plan' = compute_plan(request, loss_factor)
    /\ pc' = "returned"
    /\ master_rows' = IF app = FinalJItToolApp
                      THEN master_rows \o MasterRows(plan_index, request, plan')
                      ELSE master_rows
    /\ UNCHANGED <<request, loss_factor, error, history, app, num_plans,
                   plan_index, session_state, event>>

\* else: st.info("Enter a positive desired yield to generate a schedule.")
AppSkipPlan ==
    /\ pc = "ready"
    /\ app \in YieldGated
    /\ ~(request.desired_yield_lbs > 0)
    /\ pc' = "skipped"
    /\ UNCHANGED <<request, loss_factor, plan, error, history, dashboard>>

\* kristineNEWapp.py gives two number inputs of a plan the same key,
\* gbs_duration_{i}.  The widget library is not part of the repository: it
\* may take the second widget's value for gbs_duration (the script goes on)
\* or refuse the duplicate key (the script stops before the plan is computed).
AppDuplicateKey ==
    /\ pc = "ready"
    /\ app = KristineNewApp
    /\ error' = "DuplicateWidgetID"
    /\ pc' = "raised"
    /\ UNCHANGED <<request, loss_factor, plan, history, dashboard>>

\* for i in range(num_plans): the loop goes to the next plan's widgets.
AppNextPlan ==
    /\ pc \in {"returned", "skipped"}
    /\ app \in Apps
    /\ plan_index < num_plans
    /\ plan_index' = plan_index + 1
    /\ request' \in AppRequests
    /\ pc' = "ready"
    /\ plan' = NoValue
    /\ error' = NoValue
    /\ UNCHANGED <<loss_factor, history, app, num_plans, master_rows,
                   session_state, event>>

\* The operator changes a widget and the script runs again from the top:
\* master_rows = [] and the loop starts over.
AppRerun ==
    /\ app \in Apps
    /\ \/ pc \in {"returned", "skipped"} /\ plan_index = num_plans
       \/ pc = "raised"
    /\ num_plans' \in NumPlans(app)
    /\ plan_index' = 1
    /\ request' \in AppRequests
    /\ pc' = "ready"
    /\ plan' = NoValue
    /\ error' = NoValue
    /\ master_rows' = <<>>
    /\ UNCHANGED <<loss_factor, history, app, session_state, event>>

NextApps ==
    AppComputePlan \/ AppSkipPlan \/ AppDuplicateKey \/ AppNextPlan \/ AppRerun

SpecApps == InitApps /\ [][NextApps]_vars

(***************************************************************************)
(* The multi-plan dashboard's custom species.  A species name as typed is  *)
(* a text: some spaces, then a core without spaces around it.  The keys of *)
(* MUSHROOMS are texts without spaces in front.                            *)
(***************************************************************************)
Text(pad, core) == [pad |-> pad, core |-> core]

\* str.strip(): the text without the spaces around it.
Strip(text) == Text(0, text.core)

EmptyText == Text(0, "")

\* The names the operator types into "Species Name*".
TypedNames == [pad : 0..MaxPad, core : {"", "Lion's Mane", "Golden Oyster"}]

\* The keys of MUSHROOMS, as texts.
BuiltinNames == {Text(0, name) : name \in MUSHROOM_LIST}

\* The values the form's other inputs give a new species.
NewSpeciesRows ==
    {[incubation_days |-> 14, cultural_inoculation_days |-> 21,
      fruiting_days |-> 14, expected_yield_ratio |-> 20,
      default_grain_size_lbs |-> size] : size \in {3, 6}}

\* all_mushrooms = {**MUSHROOMS, **st.session_state.custom_mushrooms}
all_mushrooms(custom) ==
    [name \in BuiltinNames \cup DOMAIN custom |->
        IF name \in DOMAIN custom THEN custom[name] ELSE MUSHROOMS[name.core]]

InitRegistry ==
    /\ app = FinalJItToolApp
    /\ num_plans = 1
    /\ plan_index = 1
    /\ request \in {r \in AppRequests :
                       /\ r.desired_yield_lbs = 100
                       /\ r.fruiting_bag_size_lbs = 5
                       /\ r.num_sterilizers = 1}
    /\ loss_factor = LOSS_FACTOR
    /\ pc = "ready"
    /\ plan = NoValue
    /\ error = NoValue
    /\ history = {}
    /\ master_rows = <<>>
    /\ session_state = [custom_mushrooms |-> <<>>, show_new_species_form |-> FALSE]
    /\ event = [kind |-> "none"]

\* A plan's species selectbox is set to "+New species".
SelectNewSpecies ==
    /\ app = FinalJItToolApp
    /\ session_state' = [session_state EXCEPT !.show_new_species_form = TRUE]
    /\ event' = [kind |-> "select"]
    /\ UNCHANGED <<request, loss_factor, pc, plan, error, history, app,
                   num_plans, plan_index, master_rows>>

\* Faulty variant of SubmitNewSpecies: the name is not looked up among the
\* existing species.
SubmitNewSpeciesUnchecked ==
    /\ app = FinalJItToolApp
    /\ session_state.show_new_species_form
    /\ \E new_species_name \in TypedNames, row \in NewSpeciesRows :
        /\ event' = [kind |-> "submit", name |-> new_species_name, row |-> row]
        /\ IF Strip(new_species_name) = EmptyText
           THEN UNCHANGED session_state
           ELSE session_state' =
                    [custom_mushrooms |->
                         (new_species_name :> row) @@ session_state.custom_mushrooms,
                     show_new_species_form |-> FALSE]
    /\ UNCHANGED <<request, loss_factor, pc, plan, error, history, app,
                   num_plans, plan_index, master_rows>>

\* "Create Species" is pressed in the new_species_form.
SubmitNewSpecies ==
    /\ app = FinalJItToolApp
    /\ session_state.show_new_species_form
    /\ \E new_species_name \in TypedNames, row \in NewSpeciesRows :
        /\ event' = [kind |-> "submit", name |-> new_species_name, row |-> row]
        /\ IF Strip(new_species_name) = EmptyText
           THEN UNCHANGED session_state
           ELSE IF new_species_name
                       \in DOMAIN all_mushrooms(session_state.custom_mushrooms)
           THEN UNCHANGED session_state
           ELSE session_state' =
                    [custom_mushrooms |->
                         (new_species_name :> row) @@ session_state.custom_mushrooms,
                     show_new_species_form |-> FALSE]
    /\ UNCHANGED <<request, loss_factor, pc, plan, error, history, app,
                   num_plans, plan_index, master_rows>>

\* "Cancel" is pressed in the new_species_form.
CancelNewSpecies ==
    /\ app = FinalJItToolApp
    /\ session_state.show_new_species_form
    /\ session_state' = [session_state EXCEPT !.show_new_species_form = FALSE]
    /\ event' = [kind |-> "cancel"]
    /\ UNCHANGED <<request, loss_factor, pc, plan, error, history, app,
                   num_plans, plan_index, master_rows>>

\* A plan's selectbox holds a custom species and "Delete this species" is
\* pressed.
DeleteSpecies ==
    /\ app = FinalJItToolApp
    /\ \E mush_name \in DOMAIN session_state.custom_mushrooms :
        /\ session_state' =
               [session_state EXCEPT !.custom_mushrooms =
                   [name \in DOMAIN session_state.custom_mushrooms \ {mush_name} |->
                       session_state.custom_mushrooms[name]]]
        /\ event' = [kind |-> "delete", name |-> mush_name]
    /\ UNCHANGED <<request, loss_factor, pc, plan, error, history, app,
                   num_plans, plan_index, master_rows>>

NextRegistry ==
    SelectNewSpecies \/ SubmitNewSpecies \/ CancelNewSpecies \/ DeleteSpecies

SpecRegistry == InitRegistry /\ [][NextRegistry]_vars

(***************************************************************************)
(* Properties.                                                             *)
(***************************************************************************)
\* The block of a plan with the given name.
BlockNamed(p, name) ==
    p.blocks[CHOOSE j \in DOMAIN p.blocks : p.blocks[j].name = name]

\* The exact ceiling of num / den, for num >= 0 and den > 0.
CeilDiv(num, den) == (num + den - 1) \div den

\* A request the engine is meant for.
ValidRequest(req) ==
    /\ req.desired_yield_lbs > 0
    /\ req.fruiting_bag_size_lbs \in DOMAIN STERILIZER_CAPACITY_PER_CYCLE
    /\ req.num_sterilizers >= 1
    /\ req.sub_bags_duration_days >= 0
    /\ req.sub_ster_duration_days >= 0
    /\ req.gbs_duration_days >= 0
    /\ req.mushroom_row.incubation_days > 0
    /\ req.mushroom_row.cultural_inoculation_days > 0
    /\ req.mushroom_row.fruiting_days > 0

Returned == pc = "returned"

\* The request of the worked example, with the signature's default durations.
ExampleRequest ==
    /\ request.desired_yield_lbs = 100
    /\ request.mushroom_row = MUSHROOMS["Lion's Mane"]
    /\ request.fruiting_bag_size_lbs = 5
    /\ request.desired_harvest_date = DateOrdinal(2025, 6, 30)
    /\ request.sub_bags_duration_days = Days(1)
    /\ request.sub_ster_duration_days = Days(3)
    /\ request.gbs_duration_days = Days(1)
    /\ request.num_sterilizers = 2

\* C1: for every valid request the call returns, and the seven blocks form a
\* contiguous backward chain: grain mixing ends where grain sterilization
\* starts; grain sterilization and substrate mixing both end where substrate
\* sterilization starts; substrate sterilization ends where grain spawn
\* incubation starts, which ends where substrate incubation starts, which ends
\* where fruiting starts; and fruiting ends on the desired harvest date.
C1_BackwardChain ==
    ValidRequest(request) =>
        /\ pc # "raised"
        /\ Returned =>
            LET gb  == BlockNamed(plan, "Grain Bags (Mixing)")
                gbs == BlockNamed(plan, "Grain Bags Sterilization")
                sb  == BlockNamed(plan, "Substrate Bags (Mixing)")
                ss  == BlockNamed(plan, "Substrate Bags Sterilization")
                gs  == BlockNamed(plan, "Grain Spawn Incubation")
                si  == BlockNamed(plan, "Substrate Bags Incubation")
                fr  == BlockNamed(plan, "Fruiting")
            IN  /\ Len(plan.blocks) = 7
                /\ gb.date_end = gbs.date_start
                /\ gbs.date_end = sb.date_end
                /\ sb.date_end = ss.date_start
                /\ ss.date_end = gs.date_start
                /\ gs.date_end = si.date_start
                /\ si.date_end = fr.date_start
                /\ fr.date_end = request.desired_harvest_date

\* The plan returned for the worked example without purchased spawn: the chain
\* runs back from 2025-06-30 to grain mixing's end on 2025-04-30.
C1_Witness ==
    /\ Returned
    /\ ExampleRequest /\ ~request.spawn_purchased
    /\ BlockNamed(plan, "Fruiting").date_start = DateOrdinal(2025, 6, 9)
    /\ BlockNamed(plan, "Substrate Bags Incubation").date_start = DateOrdinal(2025, 5, 26)
    /\ BlockNamed(plan, "Grain Spawn Incubation").date_start = DateOrdinal(2025, 5, 4)
    /\ BlockNamed(plan, "Substrate Bags Sterilization").date_start = DateOrdinal(2025, 5, 1)
    /\ BlockNamed(plan, "Substrate Bags (Mixing)").date_end = DateOrdinal(2025, 5, 1)
    /\ BlockNamed(plan, "Grain Bags Sterilization").date_end = DateOrdinal(2025, 5, 1)
    /\ BlockNamed(plan, "Grain Bags (Mixing)").date_end = DateOrdinal(2025, 4, 30)

\* C2: for every request with a positive yield (ratio in (0,1], positive bag
\* size), Fruiting.num_bags is the exact ceiling of
\* yield * loss_factor / (ratio * bag size): num_bags suffices for the inflated
\* yield and num_bags - 1 does not; yield 100, ratio 0.20, bag size 5 give 102.
C2_FruitingBagsExactCeiling ==
    (Returned /\ request.desired_yield_lbs > 0) =>
        LET num_bags == BlockNamed(plan, "Fruiting").num_bags
            ratio    == request.mushroom_row.expected_yield_ratio
            bag      == request.fruiting_bag_size_lbs
            yield    == request.desired_yield_lbs
        IN  /\ num_bags * ratio * bag >= yield * loss_factor
            /\ (num_bags - 1) * ratio * bag < yield * loss_factor
            /\ (yield = 100 /\ ratio = 20 /\ bag = 5 /\ loss_factor = 102)
                   => num_bags = 102

\* The call for 60 lbs of Pink Oyster (ratio 0.24) in 5 lb bags returns 52
\* bags, where 51 bags already hold the inflated yield.
C2_Witness ==
    /\ Returned
    /\ request.desired_yield_lbs = 60
    /\ request.mushroom_row = MUSHROOMS["Pink Oyster"]
    /\ request.fruiting_bag_size_lbs = 5
    /\ BlockNamed(plan, "Fruiting").num_bags = 52
    /\ 51 * 24 * 5 >= 60 * loss_factor

\* C3: the cycles of Substrate Bags Sterilization are the least non-negative
\* integer with capacity_per_cycle * num_sterilizers * cycles >= num_bags of
\* that block, capacity_per_cycle being the table's entry for the fruiting bag
\* size (40 for 5 lb, 20 for 10 lb).
C3_CyclesLeast ==
    Returned =>
        LET ss       == BlockNamed(plan, "Substrate Bags Sterilization")
            per_cycle == ss.capacity_per_cycle * request.num_sterilizers
        IN  /\ request.fruiting_bag_size_lbs = 5 => ss.capacity_per_cycle = 40
            /\ request.fruiting_bag_size_lbs = 10 => ss.capacity_per_cycle = 20
            /\ ss.cycles >= 0
            /\ per_cycle * ss.cycles >= ss.num_bags
            /\ ss.cycles > 0 => per_cycle * (ss.cycles - 1) < ss.num_bags

\* 40 bags for two sterilizers of capacity 20: exactly one cycle.
C3_Witness ==
    /\ Returned
    /\ ValidRequest(request)
    /\ request.fruiting_bag_size_lbs = 10
    /\ request.num_sterilizers = 2
    /\ BlockNamed(plan, "Substrate Bags Sterilization").num_bags = 40
    /\ BlockNamed(plan, "Substrate Bags Sterilization").cycles = 1

\* C4: the bag counts are inflated once per upstream stage, each time with a
\* ceiling: incubation bags = ceil(fruiting bags * loss factor) and
\* sterilization bags = ceil(incubation bags * loss factor).
C4_StagewiseInflation ==
    Returned =>
        LET fr == BlockNamed(plan, "Fruiting")
            si == BlockNamed(plan, "Substrate Bags Incubation")
            ss == BlockNamed(plan, "Substrate Bags Sterilization")
        IN  /\ si.num_bags = CeilDiv(fr.num_bags * loss_factor, 100)
            /\ ss.num_bags = CeilDiv(si.num_bags * loss_factor, 100)

\* 52 fruiting bags give 54 and then 56 bags, where one ceiling on the product
\* 52 * 1.02 * 1.02 would give 55.
C4_Witness ==
    /\ Returned
    /\ BlockNamed(plan, "Fruiting").num_bags = 52
    /\ BlockNamed(plan, "Substrate Bags Incubation").num_bags = 54
    /\ BlockNamed(plan, "Substrate Bags Sterilization").num_bags = 56
    /\ CeilDiv(52 * loss_factor * loss_factor, 100 * 100) = 55

\* C5: loss-factor monotonicity: the same valid request evaluated with a loss
\* factor L1 <= the current one (both >= 1) gives no larger a count: fruiting,
\* incubation and sterilization bags and the cycles.
C5_LossMonotone ==
    (Returned /\ ValidRequest(request)) =>
        \A l1 \in LossFactors :
            (100 <= l1 /\ l1 <= loss_factor) =>
                LET lower == compute_plan(request, l1)
                IN  /\ BlockNamed(lower, "Fruiting").num_bags
                           <= BlockNamed(plan, "Fruiting").num_bags
                    /\ BlockNamed(lower, "Substrate Bags Incubation").num_bags
                           <= BlockNamed(plan, "Substrate Bags Incubation").num_bags
                    /\ BlockNamed(lower, "Substrate Bags Sterilization").num_bags
                           <= BlockNamed(plan, "Substrate Bags Sterilization").num_bags
                    /\ BlockNamed(lower, "Substrate Bags Sterilization").cycles
                           <= BlockNamed(plan, "Substrate Bags Sterilization").cycles

\* A plan under loss factor 1.10 with strictly more fruiting bags and cycles
\* than the same request gets under 1.00.
C5_Witness ==
    /\ Returned
    /\ ValidRequest(request)
    /\ loss_factor = 110
    /\ BlockNamed(compute_plan(request, 100), "Fruiting").num_bags
           < BlockNamed(plan, "Fruiting").num_bags
    /\ BlockNamed(compute_plan(request, 100), "Substrate Bags Sterilization").cycles
           < BlockNamed(plan, "Substrate Bags Sterilization").cycles

\* The least date_start of a plan's blocks.
LeastStart(p) ==
    CHOOSE v \in {p.blocks[j].date_start : j \in DOMAIN p.blocks} :
        \A j \in DOMAIN p.blocks : v <= p.blocks[j].date_start

\* C6: total-duration reconciliation: for every valid request, when Grain
\* Bags (Mixing) starts earliest of all blocks (no block starts before it), the
\* reported total is the number of days from its date_start + 1 day to
\* Fruiting.date_end; otherwise it is the number of days from the earliest
\* block start to Fruiting.date_end.  It is reported as weeks = total div 7 and
\* days = total mod 7, so 7 * weeks + days = total and 0 <= days < 7.
C6_TotalDurationReconciled ==
    (Returned /\ ValidRequest(request)) =>
        LET gb    == BlockNamed(plan, "Grain Bags (Mixing)")
            fr    == BlockNamed(plan, "Fruiting")
            total == IF gb.date_start = LeastStart(plan)
                     THEN fr.date_end - (gb.date_start + 1)
                     ELSE fr.date_end - LeastStart(plan)
            weeks == plan.summary.total_duration[1]
            days  == plan.summary.total_duration[3]
        IN  /\ weeks = total \div 7
            /\ days = total % 7
            /\ 7 * weeks + days = total
            /\ 0 <= days /\ days < 7

\* The worked example without purchased spawn: grain mixing is shown from
\* 2025-04-29, the earliest start, and the total is the 61 days from 2025-04-30
\* to 2025-06-30: 8 weeks, 5 days.
C6_Witness ==
    /\ Returned
    /\ ExampleRequest /\ ~request.spawn_purchased
    /\ BlockNamed(plan, "Grain Bags (Mixing)").date_start = DateOrdinal(2025, 4, 29)
    /\ LeastStart(plan) = DateOrdinal(2025, 4, 29)
    /\ DateOrdinal(2025, 6, 30) - DateOrdinal(2025, 4, 30) = 61
    /\ plan.summary.total_duration = <<8, "weeks", 5, "days">>

\* C7: for every valid request the Grain Bags (Mixing) block reports
\* duration_days = 0.5 and its date_start is exactly one calendar day before
\* its date_end.
C7_GrainBagsHalfDayOneDayShown ==
    (Returned /\ ValidRequest(request)) =>
        LET gb == BlockNamed(plan, "Grain Bags (Mixing)")
        IN  /\ gb.duration_days + gb.duration_days = Days(1)
            /\ gb.date_start = gb.date_end - 1

\* Grain mixing shown from 2025-04-29 to 2025-04-30 with a recorded half day.
C7_Witness ==
    /\ Returned
    /\ ValidRequest(request)
    /\ BlockNamed(plan, "Grain Bags (Mixing)").date_start = DateOrdinal(2025, 4, 29)
    /\ BlockNamed(plan, "Grain Bags (Mixing)").date_end = DateOrdinal(2025, 4, 30)
    /\ BlockNamed(plan, "Grain Bags (Mixing)").duration_days = HalfDay

\* C8: for every stage other than Grain Bags (Mixing), date_start is date_end
\* minus the recorded duration_days, for every operator duration that is a
\* non-negative multiple of half a day: the days from date_start to date_end
\* equal duration_days (2025-06-30 minus 21 days of fruiting is 2025-06-09).
C8_StartIsEndMinusDuration ==
    Returned =>
        /\ \A j \in DOMAIN plan.blocks :
              plan.blocks[j].name # "Grain Bags (Mixing)" =>
                  Days(plan.blocks[j].date_end - plan.blocks[j].date_start)
                      = plan.blocks[j].duration_days
        /\ (request.desired_harvest_date = DateOrdinal(2025, 6, 30)
                /\ request.mushroom_row.fruiting_days = 21)
               => BlockNamed(plan, "Fruiting").date_start = DateOrdinal(2025, 6, 9)

\* A substrate sterilization of half a day: the block records 0.5 day and
\* starts on the day it ends.
C8_Witness ==
    /\ Returned
    /\ request.sub_ster_duration_days = HalfDay
    /\ BlockNamed(plan, "Substrate Bags Sterilization").duration_days = HalfDay
    /\ BlockNamed(plan, "Substrate Bags Sterilization").date_start
           = BlockNamed(plan, "Substrate Bags Sterilization").date_end

\* C9: the Grain Spawn Incubation block's duration_days is exactly 1 when spawn
\* is purchased, whatever cultural_inoculation_days is, and exactly
\* cultural_inoculation_days + 1 otherwise (22 for 21); its date_start is its
\* date_end minus that duration.
C9_GrainSpawnDuration ==
    Returned =>
        LET gs       == BlockNamed(plan, "Grain Spawn Incubation")
            cultural == request.mushroom_row.cultural_inoculation_days
        IN  /\ request.spawn_purchased => gs.duration_days = Days(1)
            /\ ~request.spawn_purchased => gs.duration_days = Days(cultural + 1)
            /\ (~request.spawn_purchased /\ cultural = 21) => gs.duration_days = Days(22)
            /\ Days(gs.date_end - gs.date_start) = gs.duration_days

\* Lion's Mane (21 cultural inoculation days) without purchased spawn: 22 days,
\* from 2025-05-04 to 2025-05-26.
C9_Witness ==
    /\ Returned
    /\ ~request.spawn_purchased
    /\ request.mushroom_row.cultural_inoculation_days = 21
    /\ BlockNamed(plan, "Grain Spawn Incubation").duration_days = Days(22)
    /\ BlockNamed(plan, "Grain Spawn Incubation").date_start = DateOrdinal(2025, 5, 4)
    /\ BlockNamed(plan, "Grain Spawn Incubation").date_end = DateOrdinal(2025, 5, 26)

\* C10: for every valid request the summary's 'Schedule starts' is the least
\* date_start of the seven blocks (the displayed value, not the reconciled one),
\* 'Schedule ends' is the desired harvest date and 'Fruiting bags' is
\* Fruiting.num_bags.
C10_SummaryFields ==
    (Returned /\ ValidRequest(request)) =>
        /\ \A j \in DOMAIN plan.blocks :
              plan.summary.schedule_starts <= plan.blocks[j].date_start
        /\ \E j \in DOMAIN plan.blocks :
              plan.summary.schedule_starts = plan.blocks[j].date_start
        /\ plan.summary.schedule_ends = request.desired_harvest_date
        /\ plan.summary.fruiting_bags = BlockNamed(plan, "Fruiting").num_bags

\* Substrate mixing of two days starts before grain mixing: the schedule starts
\* with it, and with grain mixing's displayed start when that is the earliest,
\* one day before the day the total duration is counted from.
C10_Witness ==
    /\ Returned
    /\ ValidRequest(request)
    /\ request.sub_bags_duration_days = Days(2)
    /\ request.gbs_duration_days = 0
    /\ plan.summary.schedule_starts
           = BlockNamed(plan, "Substrate Bags (Mixing)").date_start
    /\ plan.summary.schedule_starts
           < BlockNamed(plan, "Grain Bags (Mixing)").date_start
    /\ plan.summary.fruiting_bags = 102

\* C11: for every valid request each per-bag amount (hardwood pellets,
\* softwood pellets, water) is its per-pound ratio times the fruiting bag size,
\* each material total is that per-bag amount times the bag count of Substrate
\* Bags Sterilization, 'Bags planned' is that same bag count and 'Bag size
\* (lbs)' the fruiting bag size.
C11_MaterialsFromSterilizationBags ==
    (Returned /\ ValidRequest(request)) =>
        LET bag   == request.fruiting_bag_size_lbs
            bags  == BlockNamed(plan, "Substrate Bags Sterilization").num_bags
            sb    == BlockNamed(plan, "Substrate Bags (Mixing)")
            hw    == FMul(LiteralFloats[SUBSTRATE_MIX_RATIOS.hw_pellets_per_lb], FromInt(bag))
            sh    == FMul(LiteralFloats[SUBSTRATE_MIX_RATIOS.sh_pellets_per_lb], FromInt(bag))
            water == FMul(LiteralFloats[SUBSTRATE_MIX_RATIOS.water_per_lb], FromInt(bag))
        IN  /\ plan.mix_ratio[1].Amount = hw /\ sb.hw_per_bag = hw
            /\ plan.mix_ratio[2].Amount = sh /\ sb.sh_per_bag = sh
            /\ plan.mix_ratio[3].Amount = water /\ sb.water_per_bag = water
            /\ plan.materials[1].Total = FMul(hw, FromInt(bags))
            /\ plan.materials[2].Total = FMul(sh, FromInt(bags))
            /\ plan.materials[3].Total = FMul(water, FromInt(bags))
            /\ plan.materials[4].Material = "Bags planned"
            /\ plan.materials[4].Total = bags
            /\ plan.materials[5].Material = "Bag size (lbs)"
            /\ plan.materials[5].Total = bag

\* The worked example: 102 fruiting, 105 incubation and 108 sterilization bags
\* of 5 lb; 1 lb of each pellet and 3 lb of water per bag; totals 108, 108 and
\* 324 lb, over the 108 bags.
C11_Witness ==
    /\ Returned
    /\ ExampleRequest
    /\ loss_factor = LOSS_FACTOR
    /\ BlockNamed(plan, "Fruiting").num_bags = 102
    /\ BlockNamed(plan, "Substrate Bags Incubation").num_bags = 105
    /\ plan.mix_ratio[1].Amount = FromInt(1)
    /\ plan.mix_ratio[3].Amount = FromInt(3)
    /\ plan.materials[1].Total = FromInt(108)
    /\ plan.materials[2].Total = FromInt(108)
    /\ plan.materials[3].Total = FromInt(324)
    /\ plan.materials[4].Total = 108

DegenerateRequest(req) ==
    /\ req.fruiting_bag_size_lbs \in DOMAIN STERILIZER_CAPACITY_PER_CYCLE
    /\ \/ req.desired_yield_lbs <= 0
       \/ req.sub_bags_duration_days <= 0
       \/ req.sub_ster_duration_days <= 0
       \/ req.gbs_duration_days <= 0
       \/ req.num_sterilizers = 0

\* C13: the engine never fails on the parameters it does not validate: a
\* call with a bag size of the capacity table and a non-positive yield, a
\* non-positive duration or zero sterilizers raises nothing and returns a
\* plan, with zero fruiting bags for a zero yield.
C13_DegenerateRequestsReturn ==
    (DegenerateRequest(request) /\ pc # "ready") =>
        /\ pc = "returned"
        /\ error = NoValue
        /\ request.desired_yield_lbs = 0 =>
               BlockNamed(plan, "Fruiting").num_bags = 0

\* A call with zero sterilizers, everything else as the worked example has
\* it, ended in a ZeroDivisionError: sub_ster_bags / (capacity * 0).
C13_Witness ==
    /\ pc = "raised"
    /\ error = "ZeroDivisionError"
    /\ request.num_sterilizers = 0
    /\ request.desired_yield_lbs = 100
    /\ request.fruiting_bag_size_lbs = 5
    /\ request.mushroom_row = MUSHROOMS["Lion's Mane"]
    /\ request.sub_bags_duration_days = Days(1)
    /\ request.sub_ster_duration_days = Days(3)
    /\ request.gbs_duration_days = Days(1)


C15_CallersGateOnYield ==
    app \in Apps =>
        /\ pc = "returned" => request.desired_yield_lbs > 0
        /\ (pc # "ready" /\ request.desired_yield_lbs = 0) =>
               pc \in {"skipped", "raised"}
        /\ \A j \in DOMAIN master_rows : master_rows[j].Desired_Yield_lbs > 0

\* The single-plan dashboard computed a plan for a yield of 0: a plan with
\* zero fruiting bags.
C15_Witness ==
    /\ app = AppCodeApp
    /\ request.desired_yield_lbs = 0
    /\ pc = "returned"
    /\ BlockNamed(plan, "Fruiting").num_bags = 0
    /\ plan.summary.fruiting_bags = 0


\* What a step does to the custom species, by the event it handled.
RegistryStep ==
    LET before == session_state.custom_mushrooms
        after  == session_state'.custom_mushrooms
        Kept(names) == \A name \in names : after[name] = before[name]
    IN  CASE event'.kind = "submit" ->
                 IF /\ Strip(event'.name) # EmptyText
                    /\ event'.name \notin BuiltinNames
                    /\ event'.name \notin DOMAIN before
                 THEN /\ DOMAIN after = DOMAIN before \cup {event'.name}
                      /\ after[event'.name] = event'.row
                      /\ Kept(DOMAIN before)
                 ELSE /\ DOMAIN after = DOMAIN before
                      /\ Kept(DOMAIN before)
          [] event'.kind = "delete" ->
                 /\ event'.name \in DOMAIN before
                 /\ DOMAIN after = DOMAIN before \ {event'.name}
                 /\ Kept(DOMAIN after)
          [] OTHER ->
                 /\ DOMAIN after = DOMAIN before
                 /\ Kept(DOMAIN before)

\* C16: the custom species change only by create and delete.  A create with
\* a non-blank name that no built-in and no custom species has adds that one
\* entry; a create with a blank or an existing name changes nothing; a delete
\* removes the selected custom species and nothing else; every other step
\* leaves the custom species as they are.  At all times no custom name is
\* blank or a built-in's, and every built-in species is in the combined
\* list with its own row.
C16_RegistryCreateDelete ==
    /\ [](/\ DOMAIN session_state.custom_mushrooms \cap BuiltinNames = {}
          /\ \A name \in DOMAIN session_state.custom_mushrooms :
                 Strip(name) # EmptyText
          /\ \A name \in MUSHROOM_LIST :
                 all_mushrooms(session_state.custom_mushrooms)[Text(0, name)]
                     = MUSHROOMS[name])
    /\ [][RegistryStep]_vars

\* Two species were created, one of them under a built-in's name with a
\* space in front, and the other has just been deleted.
C16_Witness ==
    /\ event = [kind |-> "delete", name |-> Text(0, "Golden Oyster")]
    /\ DOMAIN session_state.custom_mushrooms = {Text(1, "Lion's Mane")}


\* The days the summary's total duration reports: 7 * weeks + days.
ReportedDays(p) == 7 * p.summary.total_duration[1] + p.summary.total_duration[3]

\* C17: the reported total duration covers every real stage: for a valid
\* request, no block other than Grain Bags (Mixing) starts more days before
\* Fruiting's date_end than the summary's total duration reports.
C17_TotalDurationCoversStages ==
    (Returned /\ ValidRequest(request)) =>
        \A j \in DOMAIN plan.blocks :
            plan.blocks[j].name # "Grain Bags (Mixing)" =>
                BlockNamed(plan, "Fruiting").date_end - plan.blocks[j].date_start
                    <= ReportedDays(plan)

\* Substrate mixing lasts a day and grain sterilization none: Substrate Bags
\* (Mixing) starts on the date Grain Bags (Mixing) is shown on, the day
\* before the date the total is counted from.
C17_Witness ==
    /\ Returned
    /\ ValidRequest(request)
    /\ request.sub_bags_duration_days = Days(1)
    /\ request.gbs_duration_days = 0
    /\ BlockNamed(plan, "Substrate Bags (Mixing)").date_start
           = BlockNamed(plan, "Grain Bags (Mixing)").date_start
    /\ BlockNamed(plan, "Fruiting").date_end
           - BlockNamed(plan, "Substrate Bags (Mixing)").date_start
           = ReportedDays(plan) + 1


\* blocks = [grain_bags, grain_bag_ster, substrate_bags, substrate_ster, gsi,
\*           substrate_incub, fruiting], by name.
BlockOrder ==
    <<"Grain Bags (Mixing)", "Grain Bags Sterilization",
      "Substrate Bags (Mixing)", "Substrate Bags Sterilization",
      "Grain Spawn Incubation", "Substrate Bags Incubation", "Fruiting">>

\* The names of a plan's blocks, in the list's order.
BlockNames(p) == [j \in DOMAIN p.blocks |-> p.blocks[j].name]

\* C18 as stated: the block list is the seven blocks in the fixed order, and
\* for a valid request the date_start values do not decrease along the list.
C18_BlocksChronological ==
    Returned =>
        /\ BlockNames(plan) = BlockOrder
        /\ ValidRequest(request) =>
               \A j \in 1..(Len(plan.blocks) - 1) :
                   plan.blocks[j].date_start <= plan.blocks[j + 1].date_start

\* C18: the block list is the seven blocks in the fixed order.  For a
\* valid request the date_start values do not decrease along the list, but
\* for the step from Grain Bags Sterilization to Substrate Bags (Mixing):
\* the two end on the same date, and substrate mixing starts no earlier
\* than grain sterilization exactly when it has no more whole days.
C18_BlocksFixedOrderParallelMixing ==
    Returned =>
        /\ BlockNames(plan) = BlockOrder
        /\ ValidRequest(request) =>
               /\ \A j \in 1..(Len(plan.blocks) - 1) :
                      plan.blocks[j].name # "Grain Bags Sterilization" =>
                          plan.blocks[j].date_start <= plan.blocks[j + 1].date_start
               /\ BlockNamed(plan, "Grain Bags Sterilization").date_end
                      = BlockNamed(plan, "Substrate Bags (Mixing)").date_end
               /\ (BlockNamed(plan, "Grain Bags Sterilization").date_start
                       <= BlockNamed(plan, "Substrate Bags (Mixing)").date_start)
                  <=> (request.sub_bags_duration_days \div HalfDaysPerDay
                           <= request.gbs_duration_days \div HalfDaysPerDay)

\* Substrate mixing takes two days and grain sterilization one: Substrate
\* Bags (Mixing), third in the list, starts the day before Grain Bags
\* Sterilization, second in the list.
C18_Witness ==
    /\ Returned
    /\ ValidRequest(request)
    /\ request.sub_bags_duration_days = Days(2)
    /\ request.gbs_duration_days = Days(1)
    /\ plan.blocks[2].name = "Grain Bags Sterilization"
    /\ plan.blocks[3].name = "Substrate Bags (Mixing)"
    /\ plan.blocks[3].date_start + 1 = plan.blocks[2].date_start

=============================================================================
